---- MODULE Spec2Model ----
(***************************************************************************)
(* TradePy back-testing core: the day loop of Backtester.trade, the exit   *)
(* rules and the sizing algorithm of StrategyBase, and the Account /       *)
(* TradeBook ledger.                                                       *)
(*                                                                         *)
(* Units.  Money and prices are integers in cents (every price of the      *)
(* program is a float rounded to 2 decimals).  Percentages (stop_loss,     *)
(* take_profit, commission rates, pct_chg) are integers in hundredths of   *)
(* a percent.  max_position_size is in percent of the total asset value.   *)
(* round(x, 2) of the program becomes RoundDiv on these integers.          *)
(***************************************************************************)
EXTENDS Integers, Sequences, FiniteSets, TLC

VARIABLES
    ctx,            \* Context: the read-only strategy parameters
    cash_amount,    \* Account.cash_amount
    holdings,       \* Account.holdings: open positions, in insertion order
    trade_logs,     \* TradeBook.trade_logs
    capital_logs,   \* TradeBook.capital_logs
    day,            \* number of timestamps of the dataset consumed so far
    status,         \* "running", or the exception that ended Backtester.trade
    last,           \* the locals of the last iteration of the day loop
    dataset         \* the df given to Backtester.trade, where the run is
                    \* over a dataset given up front (<<>> where the day
                    \* frames are drawn day by day)

vars == <<ctx, cash_amount, holdings, trade_logs, capital_logs, day, status, last, dataset>>

\* Number of trading days of the dataset.
MaxDays == 2

\* Python's None (a function that falls off its end returns it).
None == -1

Codes == {"A", "B", "C"}
CodeOrder == <<"A", "B", "C">>

OPEN == "open"
CLOSE == "close"
STOP_LOSS == "stop-loss"
TAKE_PROFIT == "take-profit"

-----------------------------------------------------------------------------
(* Arithmetic *)

\* round(n / d) to the nearest integer, ties to even (Python's round).
RoundDiv(n, d) ==
    LET q == n \div d
        r == n % d
    IN  IF 2 * r < d THEN q
        ELSE IF 2 * r > d THEN q + 1
        ELSE IF q % 2 = 0 THEN q ELSE q + 1

\* tradepy.utils.calc_pct_chg: percentage change of then_price versus
\* base_price, rounded to 2 decimals.
calc_pct_chg(base_price, then_price) ==
    RoundDiv(10000 * (then_price - base_price), base_price)

\* Python truthiness of "float | None".
Truthy(x) == x # None /\ x # 0

\* Op applied to the value of v (v is evaluated once).
With(v, Op(_)) == CHOOSE r \in {Op(x) : x \in {v}} : TRUE

RECURSIVE SumTo(_, _)
SumTo(s, n) == IF n = 0 THEN 0 ELSE s[n] + SumTo(s, n - 1)

SumSeq(s) == With(s, LAMBDA v : SumTo(v, Len(v)))

Range(s) == {s[i] : i \in DOMAIN s}

-----------------------------------------------------------------------------
(* Position *)

\* Position(timestamp, code, company, price, shares) with __post_init__:
\* latest_price defaults to price; the generated id is unique per position.
Position(timestamp, code, price, shares) ==
    [id |-> <<code, timestamp>>, timestamp |-> timestamp, code |-> code,
     price |-> price, shares |-> shares,
     latest_price |-> price]

total_value_at(pos, price) == price * pos.shares

cost(pos) == total_value_at(pos, pos.price)

chg_at(pos, price) == price - pos.price

pct_chg_at(pos, price) == calc_pct_chg(pos.price, price)

price_at_pct_change(pos, pct) == RoundDiv(pos.price * (10000 + pct), 10000)

update_price(pos, price) == [pos EXCEPT !.latest_price = price]

close(pos, price) == [pos EXCEPT !.latest_price = price]

-----------------------------------------------------------------------------
(* The day's frame sub_df: a sequence of rows, one per symbol traded. *)

FrameCodes(sub_df) == {sub_df[i].code : i \in DOMAIN sub_df}

RowOf(sub_df, code) ==
    sub_df[CHOOSE i \in DOMAIN sub_df : sub_df[i].code = code]

-----------------------------------------------------------------------------
(* Holdings: positions indexed by symbol, iterated in insertion order *)

position_codes(h) == {h[i].code : i \in DOMAIN h}

get_total_worth(h) ==
    SumSeq([i \in DOMAIN h |-> total_value_at(h[i], h[i].latest_price)])

\* Index of the first held position whose symbol the price lookup cannot
\* find (0 when there is none).
FirstMissing(h, sub_df) ==
    IF \A i \in DOMAIN h : h[i].code \in FrameCodes(sub_df) THEN 0
    ELSE CHOOSE i \in DOMAIN h :
            /\ h[i].code \notin FrameCodes(sub_df)
            /\ \A j \in 1..(i - 1) : h[j].code \in FrameCodes(sub_df)

\* Holdings.tick: update_price of every position from the lookup, in order;
\* positions from the first failing lookup on are not reached.
HoldingsTick(h, sub_df) ==
    LET m == FirstMissing(h, sub_df)
    IN  [i \in DOMAIN h |->
            IF m = 0 \/ i < m
            THEN update_price(h[i], RowOf(sub_df, h[i].code).close)
            ELSE h[i]]

RECURSIVE HoldingsInsert(_, _)
HoldingsInsert(h, positions) ==
    IF positions = <<>> THEN h
    ELSE LET pos == Head(positions)
             h1 == IF pos.code \in position_codes(h)
                   THEN [i \in DOMAIN h |->
                            IF h[i].code = pos.code THEN pos ELSE h[i]]
                   ELSE Append(h, pos)
         IN  HoldingsInsert(h1, Tail(positions))

\* Holdings.buy: insert the positions; returns <<holdings, total cost>>.
HoldingsBuy(h, positions) ==
    <<HoldingsInsert(h, positions),
      SumSeq([i \in DOMAIN positions |-> cost(positions[i])])>>

KeptAfterSell(h, positions) ==
    LET sold == position_codes(positions)
        Kept(pos) == pos.code \notin sold
    IN  SelectSeq(h, Kept)

\* Holdings.sell: remove the positions; returns <<holdings, total proceeds>>.
HoldingsSell(h, positions) ==
    <<KeptAfterSell(h, positions),
      SumSeq([i \in DOMAIN positions |->
                total_value_at(positions[i], positions[i].latest_price)])>>

-----------------------------------------------------------------------------
(* Account *)

add_buy_commissions(amount) ==
    RoundDiv(amount * (10000 + ctx.buy_commission_rate), 10000)

\* Mutant: the commissioned amount is truncated to the cent, not rounded.
take_sell_commissions_Truncated(amount) ==
    (amount * (10000 - ctx.sell_commission_rate)) \div 10000

take_sell_commissions(amount) ==
    RoundDiv(amount * (10000 - ctx.sell_commission_rate), 10000)

\* Account.tick
AccountTick(h, sub_df) ==
    IF h # <<>> THEN HoldingsTick(h, sub_df) ELSE h

\* Account.buy: <<cash_amount, holdings>> after the call.
AccountBuy(cash, h, positions) ==
    LET res == HoldingsBuy(h, positions)
    IN  IF Truthy(res[2])
        THEN <<cash - add_buy_commissions(res[2]), res[1]>>
        ELSE <<cash, res[1]>>

\* Account.sell: <<cash_amount, holdings>> after the call.
AccountSell(cash, h, positions) ==
    LET res == HoldingsSell(h, positions)
    IN  IF Truthy(res[2])
        THEN <<cash + take_sell_commissions(res[2]), res[1]>>
        ELSE <<cash, res[1]>>

get_total_asset_value(cash, h) == get_total_worth(h) + cash

-----------------------------------------------------------------------------
(* StrategyBase: exit rules *)

should_stop_loss(tick, position) ==
    IF calc_pct_chg(position.price, tick.open) <= -ctx.stop_loss
    THEN tick.open
    ELSE IF calc_pct_chg(position.price, tick.low) <= -ctx.stop_loss
    THEN price_at_pct_change(position, -ctx.stop_loss)
    ELSE None

\* Mutant: a take-profit reached during the day exits at the day's high.
should_take_profit_AtHigh(tick, position) ==
    IF calc_pct_chg(position.price, tick.open) >= ctx.take_profit
    THEN tick.open
    ELSE IF calc_pct_chg(position.price, tick.high) >= ctx.take_profit
    THEN tick.high
    ELSE None

should_take_profit(tick, position) ==
    IF calc_pct_chg(position.price, tick.open) >= ctx.take_profit
    THEN tick.open
    ELSE IF calc_pct_chg(position.price, tick.high) >= ctx.take_profit
    THEN price_at_pct_change(position, ctx.take_profit)
    ELSE None

-----------------------------------------------------------------------------
(* StrategyBase: sizing.  A budget is carried in hundredths of a cent, so   *)
(* that max_position_size * total asset value stays an integer.            *)

trade_price(row) == row.close * ctx.trading_unit

\* DataFrame.sample(n): n distinct rows of the frame, in the order drawn.
\* smp is the draw: a sequence of n distinct symbols of the frame.
Sample(bars_df, smp) == [k \in DOMAIN smp |-> RowOf(bars_df, smp[k])]

Samples(bars_df, n) ==
    {s \in [1..n -> FrameCodes(bars_df)] :
        \A i, j \in 1..n : i # j => s[i] # s[j]}

\* Mutant: the pool is not limited to max_position_opens rows.
get_pool_and_budget_NoLimit(bars_df, buy_indices, budget, total_asset_value, smp) ==
    LET pool_df == [k \in DOMAIN buy_indices |-> RowOf(bars_df, buy_indices[k])]
        min_position_allocation == budget \div (100 * Len(pool_df))
    IN  IF min_position_allocation * 10000
              > ctx.max_position_size * total_asset_value
        THEN <<pool_df, Len(pool_df) * ctx.max_position_size * total_asset_value>>
        ELSE <<pool_df, 100 * budget>>

\* get_pool_and_budget(bars_df, buy_indices, budget): <<pool_df, budget>>.
\* budget comes in as cents (the cash balance) and goes out in hundredths
\* of a cent.
get_pool_and_budget(bars_df, buy_indices, budget, total_asset_value, smp) ==
    LET loc == [k \in DOMAIN buy_indices |-> RowOf(bars_df, buy_indices[k])]
        pool_df == IF Len(loc) > ctx.max_position_opens
                   THEN Sample(bars_df, smp)
                   ELSE loc
        \* budget // len(pool_df), in whole currency units
        min_position_allocation == budget \div (100 * Len(pool_df))
    IN  IF min_position_allocation * 10000
              > ctx.max_position_size * total_asset_value
        THEN <<pool_df, Len(pool_df) * ctx.max_position_size * total_asset_value>>
        ELSE <<pool_df, 100 * budget>>

\* sort_values("trade_price", ascending=False): descending, rows of equal
\* trade_price keep their order.
SortRank(pool_df, i) ==
    1 + Cardinality({j \in DOMAIN pool_df :
            \/ trade_price(pool_df[j]) > trade_price(pool_df[i])
            \/ trade_price(pool_df[j]) = trade_price(pool_df[i]) /\ j < i})

SortByTradePrice(pool_df) ==
    [k \in DOMAIN pool_df |->
        pool_df[CHOOSE i \in DOMAIN pool_df : SortRank(pool_df, i) = k]]

\* Mutant: the redistribution grants a lot that the remaining budget only
\* partly covers.
RECURSIVE Redistribute_RoundUp(_, _, _, _)
Redistribute_RoundUp(rows, shares, k, remaining_budget) ==
    IF k > Len(rows) THEN shares
    ELSE LET lot == 100 * trade_price(rows[k])
             residual_shares == (remaining_budget + lot - 1) \div lot
         IN  IF residual_shares > 0
             THEN Redistribute_RoundUp(rows,
                      [shares EXCEPT ![k] = @ + residual_shares], k + 1,
                      remaining_budget - residual_shares * lot)
             ELSE Redistribute_RoundUp(rows, shares, k + 1, remaining_budget)

\* The redistribution loop over the sorted rows: the trade_shares column
\* after rows k.. have been visited with remaining_budget left.
RECURSIVE Redistribute(_, _, _, _)
Redistribute(rows, shares, k, remaining_budget) ==
    IF k > Len(rows) THEN shares
    ELSE LET residual_shares ==
                 remaining_budget \div (100 * trade_price(rows[k]))
         IN  IF residual_shares # 0
             THEN Redistribute(rows,
                      [shares EXCEPT ![k] = @ + residual_shares], k + 1,
                      remaining_budget
                        - residual_shares * 100 * trade_price(rows[k]))
             ELSE Redistribute(rows, shares, k + 1, remaining_budget)

\* generate_positions(pool_df, budget): the list of new positions.
generate_positions(pool_df, budget, timestamp) ==
    IF pool_df = <<>> \/ budget <= 0 THEN <<>>
    ELSE
    LET num_stocks == Len(pool_df)
        Bought(pos) == pos.shares > 0
    IN  With(SortByTradePrice(pool_df), LAMBDA rows :
        With([k \in DOMAIN rows |->
                budget \div (num_stocks * 100 * trade_price(rows[k]))],
            LAMBDA first_shares :
        With(budget - SumSeq([k \in DOMAIN rows |->
                100 * trade_price(rows[k]) * first_shares[k]]),
            LAMBDA remaining_budget :
        With(Redistribute(rows, first_shares, 1, remaining_budget),
            LAMBDA trade_shares :
        SelectSeq([k \in DOMAIN rows |->
                    Position(timestamp, rows[k].code, rows[k].close,
                             trade_shares[k] * ctx.trading_unit)],
                  Bought)))))

-----------------------------------------------------------------------------
(* TradeBook *)

\* TradeBook.__sell: the trade-log entry of an exit (total_return is in
\* units of 1/10000 cent: it is not rounded by the program).
SellLog(timestamp, pos, action) ==
    [timestamp |-> timestamp, tag |-> action, pos_id |-> pos.id,
     code |-> pos.code, shares |-> pos.shares, price |-> pos.latest_price,
     total_value |-> pos.latest_price * pos.shares,
     chg |-> chg_at(pos, pos.latest_price),
     pct_chg |-> pct_chg_at(pos, pos.latest_price),
     total_return |-> pos.price * pct_chg_at(pos, pos.latest_price) * pos.shares]

\* TradeBook.buy: the trade-log entry of an open.
BuyLog(timestamp, pos) ==
    [timestamp |-> timestamp, tag |-> OPEN, pos_id |-> pos.id,
     code |-> pos.code, shares |-> pos.shares, price |-> pos.price,
     total_value |-> pos.price * pos.shares]

\* TradeBook.log_capitals
CapitalsLog(timestamp, cash, positions_value) ==
    [timestamp |-> timestamp, positions_value |-> positions_value,
     free_cash_amount |-> cash]

-----------------------------------------------------------------------------
(* Backtester *)

\* get_buy_signals: the symbols of the frame, in row order, that are not
\* held and whose row satisfies should_buy.
get_buy_signals(df, h) ==
    LET curr_positions == position_codes(h)
        Signal(row) == row.code \notin curr_positions /\ row.should_buy
        hits == SelectSeq(df, Signal)
    IN  [k \in DOMAIN hits |-> hits[k].code]

\* get_close_signals: the symbols of the frame that are held and whose row
\* satisfies should_close.
get_close_signals(df, h) ==
    IF ~ctx.close_indicators THEN {}
    ELSE IF position_codes(h) = {} THEN {}
    ELSE {df[i].code : i \in {j \in DOMAIN df :
            df[j].code \in position_codes(h) /\ df[j].should_close}}

NoExit == [tag |-> "none", price |-> None]

\* Mutant: the stop-loss is tested before the take-profit.
ResolveExit_StopLossFirst(sub_df, pos, close_indices) ==
    IF pos.code \notin FrameCodes(sub_df) THEN NoExit
    ELSE
    LET bar == RowOf(sub_df, pos.code)
        take_profit_price == should_take_profit(bar, pos)
        stop_loss_price == should_stop_loss(bar, pos)
    IN  IF Truthy(stop_loss_price)
        THEN [tag |-> STOP_LOSS, price |-> stop_loss_price]
        ELSE IF Truthy(take_profit_price)
        THEN [tag |-> TAKE_PROFIT, price |-> take_profit_price]
        ELSE IF pos.code \in close_indices
        THEN [tag |-> CLOSE, price |-> bar.close]
        ELSE NoExit

\* The body of the loop over the held positions in Backtester.trade: the
\* exit chosen for one position, NoExit when it stays.
ResolveExit(sub_df, pos, close_indices) ==
    IF pos.code \notin FrameCodes(sub_df) THEN NoExit
    ELSE
    LET bar == RowOf(sub_df, pos.code)
        take_profit_price == should_take_profit(bar, pos)
        stop_loss_price == should_stop_loss(bar, pos)
    IN  IF Truthy(take_profit_price)
        THEN [tag |-> TAKE_PROFIT, price |-> take_profit_price]
        ELSE IF Truthy(stop_loss_price)
        THEN [tag |-> STOP_LOSS, price |-> stop_loss_price]
        ELSE IF pos.code \in close_indices
        THEN [tag |-> CLOSE, price |-> bar.close]
        ELSE NoExit

\* Mutant: the day's exits are not applied to the ledger before the buys.
SellStep_Deferred(cash, closed, sell_positions) == <<cash, closed>>

\* "if sell_positions: self.account.sell(sell_positions)": <<cash_amount,
\* holdings>> once the day's exits are applied to the ledger.
SellStep(cash, closed, sell_positions) ==
    IF sell_positions # <<>>
    THEN AccountSell(cash, closed, sell_positions)
    ELSE <<cash, closed>>

\* The condition under which the day gets its capital-log entry.
LogsThisDay(buy_indices, close_indices) ==
    buy_indices # <<>> \/ close_indices # {}

\* The positions of the sell batch: those with an exit, in holdings order.
SellPositions(closed, exits) ==
    LET Exiting(pos) ==
            \E i \in DOMAIN closed : closed[i] = pos /\ exits[i] # NoExit
    IN  SelectSeq(closed, Exiting)

\* The trade-log entries the exit chain appends, in holdings order.
SellLogs(timestamp, closed, exits) ==
    LET TagOf(pos) ==
            exits[CHOOSE i \in DOMAIN closed : closed[i] = pos].tag
    IN  With(SellPositions(closed, exits), LAMBDA sell_positions :
        [k \in DOMAIN sell_positions |->
            SellLog(timestamp, sell_positions[k], TagOf(sell_positions[k]))])

\* The first half of an iteration of the day loop: mark-to-market, close
\* signals, the exit chain over the held positions and Account.sell.
SellPhase(cash, h, sub_df, timestamp) ==
    With(AccountTick(h, sub_df), LAMBDA ticked :
    With(get_close_signals(sub_df, ticked), LAMBDA close_indices :
    With([i \in DOMAIN ticked |->
            ResolveExit(sub_df, ticked[i], close_indices)], LAMBDA exits :
    \* the positions after pos.close(price) of those that exit
    With([i \in DOMAIN ticked |->
            IF exits[i] = NoExit THEN ticked[i]
            ELSE close(ticked[i], exits[i].price)], LAMBDA closed :
    With(SellPositions(closed, exits), LAMBDA sell_positions :
    With(SellStep(cash, closed, sell_positions), LAMBDA sold :
        [timestamp |-> timestamp,
         sub_df |-> sub_df,
         cash_before |-> cash,
         held_before |-> h,
         ticked |-> ticked,
         close_indices |-> close_indices,
         closed |-> closed,
         sell_positions |-> sell_positions,
         sell_logs |-> SellLogs(timestamp, closed, exits),
         cash_after_sell |-> sold[1],
         held_after_sell |-> sold[2]]))))))

\* The second half, after the sells s: buy signals, sizing, Account.buy and
\* the capital log; smp is the draw DataFrame.sample makes if it is called.
BuyPhase(s, smp) ==
    With(get_buy_signals(s.sub_df, s.held_after_sell), LAMBDA buy_indices :
    IF buy_indices = <<>>
    THEN [smp |-> smp, buy_indices |-> buy_indices, pool |-> <<>>,
          budget |-> None, buy_positions |-> <<>>, buy_logs |-> <<>>,
          cash_amount |-> s.cash_after_sell, holdings |-> s.held_after_sell,
          capital_logs |->
            IF LogsThisDay(buy_indices, s.close_indices)
            THEN <<CapitalsLog(s.timestamp, s.cash_after_sell,
                               get_total_worth(s.held_after_sell))>>
            ELSE <<>>]
    ELSE
    With(get_pool_and_budget(s.sub_df, buy_indices, s.cash_after_sell,
            get_total_asset_value(s.cash_after_sell, s.held_after_sell), smp),
        LAMBDA pb :
    With(generate_positions(pb[1], pb[2], s.timestamp), LAMBDA buy_positions :
    With(AccountBuy(s.cash_after_sell, s.held_after_sell, buy_positions),
        LAMBDA bought :
        [smp |-> smp, buy_indices |-> buy_indices,
         pool |-> [k \in DOMAIN pb[1] |-> pb[1][k].code],
         budget |-> pb[2],
         buy_positions |-> buy_positions,
         buy_logs |-> [k \in DOMAIN buy_positions |->
                        BuyLog(s.timestamp, buy_positions[k])],
         cash_amount |-> bought[1], holdings |-> bought[2],
         capital_logs |->
            <<CapitalsLog(s.timestamp, bought[1],
                          get_total_worth(bought[2]))>>]))))

\* One iteration of the day loop of Backtester.trade on the frame sub_df,
\* from the account (cash, h).  The result holds the loop's locals and what
\* it leaves in the account and appends to the trade book.
DayLoop(cash, h, sub_df, timestamp, smp) ==
    With(SellPhase(cash, h, sub_df, timestamp), LAMBDA s :
    With(BuyPhase(s, smp), LAMBDA b :
        [timestamp |-> s.timestamp, sub_df |-> s.sub_df, smp |-> b.smp,
         cash_before |-> s.cash_before, held_before |-> s.held_before,
         ticked |-> s.ticked, close_indices |-> s.close_indices,
         closed |-> s.closed, sell_positions |-> s.sell_positions,
         sell_logs |-> s.sell_logs, cash_after_sell |-> s.cash_after_sell,
         held_after_sell |-> s.held_after_sell,
         buy_indices |-> b.buy_indices, pool |-> b.pool,
         budget |-> b.budget, buy_positions |-> b.buy_positions,
         buy_logs |-> b.buy_logs, cash_amount |-> b.cash_amount,
         holdings |-> b.holdings, capital_logs |-> b.capital_logs]))

\* What the day loop has done before its first iteration: nothing.
NoDay ==
    [timestamp |-> 0, sub_df |-> <<>>, smp |-> <<>>, cash_before |-> 0,
     held_before |-> <<>>, ticked |-> <<>>, close_indices |-> {},
     closed |-> <<>>, sell_positions |-> <<>>, sell_logs |-> <<>>,
     cash_after_sell |-> 0, held_after_sell |-> <<>>, buy_indices |-> <<>>,
     pool |-> <<>>, budget |-> None, buy_positions |-> <<>>,
     buy_logs |-> <<>>, cash_amount |-> 0, holdings |-> <<>>,
     capital_logs |-> <<>>]

\* The draws DataFrame.sample can make on this day: one draw of
\* max_position_opens rows when the pool is downsampled, none otherwise.
Draws(cash, h, sub_df) ==
    With(SellPhase(cash, h, sub_df, 0), LAMBDA s :
        IF Len(get_buy_signals(sub_df, s.held_after_sell))
                > ctx.max_position_opens
        THEN Samples(sub_df, ctx.max_position_opens)
        ELSE {<<>>})

\* The price lookup of Account.tick raises KeyError for a held symbol that
\* is not in the day's frame.
TickRaises(h, sub_df) == h # <<>> /\ FirstMissing(h, sub_df) # 0

\* One iteration of the day loop, on the group (timestamp, sub_df).
DayAt(sub_df, timestamp) ==
    /\ status = "running"
    /\ day < MaxDays
    /\ day' = day + 1
    /\ ctx' = ctx
    /\ dataset' = dataset
    /\ IF TickRaises(holdings, sub_df)
       THEN /\ status' = "KeyError"
            /\ holdings' = AccountTick(holdings, sub_df)
            /\ UNCHANGED <<cash_amount, trade_logs, capital_logs, last>>
       ELSE \E smp \in Draws(cash_amount, holdings, sub_df) :
            \E r \in {DayLoop(cash_amount, holdings, sub_df, timestamp, smp)} :
                /\ status' = status
                /\ cash_amount' = r.cash_amount
                /\ holdings' = r.holdings
                /\ trade_logs' = trade_logs \o r.sell_logs \o r.buy_logs
                /\ capital_logs' = capital_logs \o r.capital_logs
                /\ last' = r

\* One day of Backtester.trade on the frame sub_df, where the days are
\* numbered 1, 2, ... in the order of their timestamps.
Day(sub_df) == DayAt(sub_df, day + 1)

-----------------------------------------------------------------------------
(* The datasets and configurations explored *)

Bar(o, h, l, c) == [open |-> o, high |-> h, low |-> l, close |-> c]

Row(code, bar, should_buy, should_close) ==
    [code |-> code, open |-> bar.open, high |-> bar.high, low |-> bar.low,
     close |-> bar.close, should_buy |-> should_buy,
     should_close |-> should_close]

Absent == [code |-> "absent"]

FLAT == Bar(1000, 1000, 1000, 1000)
CHEAP == Bar(520, 520, 520, 520)
RALLY == Bar(1000, 1150, 980, 1100)
SLIDE == Bar(1000, 1000, 880, 900)

\* The rows a symbol can have on a day (Absent: suspended, no row).
RowsOf(code) ==
    IF code = "A"
    THEN {Absent, Row(code, FLAT, FALSE, FALSE), Row(code, FLAT, TRUE, FALSE),
          Row(code, FLAT, FALSE, TRUE), Row(code, RALLY, FALSE, FALSE),
          Row(code, SLIDE, FALSE, FALSE), Row(code, SLIDE, TRUE, TRUE)}
    ELSE IF code = "B"
    THEN {Row(code, FLAT, FALSE, FALSE), Row(code, FLAT, TRUE, FALSE),
          Row(code, CHEAP, TRUE, FALSE)}
    ELSE {Row(code, FLAT, FALSE, FALSE), Row(code, FLAT, TRUE, FALSE)}

\* The frame of a choice of rows: the rows present, sorted by symbol.
FrameOf(choice) ==
    LET Present(code) == choice[code] # Absent
        present == SelectSeq(CodeOrder, Present)
    IN  [k \in DOMAIN present |-> choice[present[k]]]

Frames ==
    {FrameOf(choice) : choice \in
        {c \in [Codes -> UNION {RowsOf(code) : code \in Codes}] :
            \A code \in Codes : c[code] \in RowsOf(code)}} \ {<<>>}

Contexts ==
    {[stop_loss |-> 1000, take_profit |-> 1000, max_position_opens |-> 2,
      max_position_size |-> 50, trading_unit |-> 10, close_indicators |-> TRUE,
      buy_commission_rate |-> 3, sell_commission_rate |-> 3,
      cash_amount |-> 30000],
     [stop_loss |-> 1000, take_profit |-> 1000, max_position_opens |-> 1,
      max_position_size |-> 50, trading_unit |-> 10, close_indicators |-> TRUE,
      buy_commission_rate |-> 0, sell_commission_rate |-> 0,
      cash_amount |-> 30000]}

Init ==
    /\ ctx \in Contexts
    /\ cash_amount = ctx.cash_amount
    /\ holdings = <<>>
    /\ trade_logs = <<>>
    /\ capital_logs = <<>>
    /\ day = 0
    /\ dataset = <<>>
    /\ status = "running"
    /\ last = NoDay

TradeDay == \E sub_df \in Frames : Day(sub_df)

Next == TradeDay

Spec == Init /\ [][Next]_vars

-----------------------------------------------------------------------------
(* The exit rules on their own: an account that already holds one position *)
(* of symbol A, traded over days on which A has no buy signal.             *)

\* Bars whose four prices are drawn from grid, low <= open, close <= high.
BarsOver(grid) ==
    {Bar(o, h, l, c) : o \in grid, h \in grid, l \in grid, c \in grid} \cap
    {b \in [open : grid, high : grid, low : grid, close : grid] :
        b.low <= b.open /\ b.low <= b.close
        /\ b.open <= b.high /\ b.close <= b.high}

ExitBars ==
    BarsOver({880, 1000, 1150})
    \cup {Bar(1000, 1150, 980, 1100), Bar(1120, 1150, 1100, 1120),
          Bar(1000, 1099, 901, 1000), Bar(1000, 1100, 900, 1000)}
    \cup BarsOver({1, 30000, 33000})

ExitFrames ==
    {<<Row("A", bar, FALSE, should_close)>> :
        bar \in ExitBars, should_close \in BOOLEAN}

\* The configurations and the position held at the start.
ExitCases ==
    {[ctx |-> [stop_loss |-> 1000, take_profit |-> 1000,
               max_position_opens |-> 1, max_position_size |-> 50,
               trading_unit |-> 1, close_indicators |-> TRUE,
               buy_commission_rate |-> 0, sell_commission_rate |-> 3,
               cash_amount |-> 0],
      pos |-> Position(0, "A", 1000, 5)],
     [ctx |-> [stop_loss |-> 10000, take_profit |-> 1000,
               max_position_opens |-> 1, max_position_size |-> 50,
               trading_unit |-> 1, close_indicators |-> TRUE,
               buy_commission_rate |-> 0, sell_commission_rate |-> 0,
               cash_amount |-> 0],
      pos |-> Position(0, "A", 30000, 1)]}

InitExit ==
    \E case \in ExitCases :
        /\ ctx = case.ctx
        /\ cash_amount = case.ctx.cash_amount
        /\ holdings = <<case.pos>>
        /\ trade_logs = <<>>
        /\ capital_logs = <<>>
        /\ day = 0
        /\ dataset = <<>>
        /\ status = "running"
        /\ last = NoDay

ExitDay == \E sub_df \in ExitFrames : Day(sub_df)

NextExit == ExitDay

SpecExit == InitExit /\ [][NextExit]_vars

-----------------------------------------------------------------------------
(* Properties *)

\* The last day of the dataset consumed so far ran to its end: last holds
\* its locals, and the account and the trade book are as it left them.
DayDone == day > 0 /\ status = "running" /\ last.timestamp = day

Proceeds(positions) ==
    SumSeq([i \in DOMAIN positions |->
        positions[i].latest_price * positions[i].shares])

Cost(positions) ==
    SumSeq([i \in DOMAIN positions |-> positions[i].price * positions[i].shares])

\* Total asset value around the day's Account.sell and Account.buy calls.
ValueBeforeSell == last.cash_before + get_total_worth(last.closed)
ValueAfterSell == last.cash_after_sell + get_total_worth(last.held_after_sell)
ValueAfterBuy == cash_amount + get_total_worth(holdings)

\* The day's Account.buy call is for symbols that are not held.
BuysNewSymbols ==
    position_codes(last.buy_positions) \cap position_codes(last.held_after_sell) = {}

ExitLogs(pos) ==
    {k \in DOMAIN trade_logs :
        /\ trade_logs[k].timestamp = day
        /\ trade_logs[k].tag # OPEN
        /\ trade_logs[k].pos_id = pos.id}

\* Position pos was sold on the last day, logged once with this tag and price.
ExitedAs(pos, tag, price) ==
    /\ Cardinality(ExitLogs(pos)) = 1
    /\ \A k \in ExitLogs(pos) :
        trade_logs[k].tag = tag /\ trade_logs[k].price = price
    /\ \A i \in DOMAIN last.held_after_sell :
        last.held_after_sell[i].id # pos.id

\* The positions held on the last day (marked to the day's close) whose
\* symbol is in the day's frame.
TradablePositions ==
    {pos \in Range(last.ticked) : pos.code \in FrameCodes(last.sub_df)}

\* C2: on every day each held position whose symbol is in the frame is
\* exited for at most one reason, by priority: take-profit if
\* should_take_profit gives a price, else stop-loss if should_stop_loss gives
\* a price, else close if the symbol has a close signal, else it stays; it
\* is in the day's sell batch at most once.
C2_ExitPriority ==
    DayDone => \A pos \in TradablePositions :
        LET bar == RowOf(last.sub_df, pos.code)
            tp == Truthy(should_take_profit(bar, pos))
            sl == Truthy(should_stop_loss(bar, pos))
            cl == bar.should_close
            tags == {trade_logs[k].tag : k \in ExitLogs(pos)}
            stays == \E i \in DOMAIN last.held_after_sell :
                        last.held_after_sell[i].id = pos.id
        IN  /\ Cardinality(ExitLogs(pos)) <= 1
            /\ Cardinality({k \in DOMAIN last.sell_positions :
                    last.sell_positions[k].id = pos.id}) <= 1
            /\ tp => tags = {TAKE_PROFIT}
            /\ ~tp /\ sl => tags = {STOP_LOSS}
            /\ ~tp /\ ~sl /\ cl => tags = {CLOSE}
            /\ ~tp /\ ~sl /\ ~cl => tags = {} /\ stays
            /\ tags # {} => ~stays

\* C2 witness: a bar on which the take-profit and the stop-loss condition
\* both hold for a held position, which is exited as take-profit.
C2_Witness ==
    /\ DayDone
    /\ \E pos \in TradablePositions :
        LET bar == RowOf(last.sub_df, pos.code)
        IN  /\ calc_pct_chg(pos.price, bar.high) >= ctx.take_profit
            /\ calc_pct_chg(pos.price, bar.low) <= -ctx.stop_loss
            /\ bar.should_close
            /\ \E k \in ExitLogs(pos) : trade_logs[k].tag = TAKE_PROFIT

\* C3: if the day's open is up by take_profit or more on the entry price p
\* the position exits at the open; otherwise, if the day's high is, it exits
\* at p * (1 + take_profit/100) rounded to the cent.
C3_TakeProfitPrice ==
    DayDone => \A pos \in TradablePositions :
        LET bar == RowOf(last.sub_df, pos.code)
        IN  IF calc_pct_chg(pos.price, bar.open) >= ctx.take_profit
            THEN ExitedAs(pos, TAKE_PROFIT, bar.open)
            ELSE calc_pct_chg(pos.price, bar.high) >= ctx.take_profit =>
                    ExitedAs(pos, TAKE_PROFIT,
                        RoundDiv(pos.price * (10000 + ctx.take_profit), 10000))

\* C3 witness: entry price 10.00, take_profit 10, open 10.0, high 11.5: the
\* exit is logged at 11.00, not at the high.
C3_Witness ==
    /\ DayDone
    /\ ctx.take_profit = 1000
    /\ \E pos \in TradablePositions :
        LET bar == RowOf(last.sub_df, pos.code)
        IN  /\ pos.price = 1000 /\ bar.open = 1000 /\ bar.high = 1150
            /\ ExitedAs(pos, TAKE_PROFIT, 1100)

\* Take-profit did not trigger for pos on bar.
NoTakeProfit(bar, pos) ==
    /\ calc_pct_chg(pos.price, bar.open) < ctx.take_profit
    /\ calc_pct_chg(pos.price, bar.high) < ctx.take_profit

\* C4: when take-profit did not trigger, a position whose open is down by
\* stop_loss or more on the entry price p is sold at the open, otherwise one
\* whose low is down by stop_loss or more is sold at p * (1 - stop_loss/100);
\* either way it is sold that day and logged as stop-loss, also when the
\* exit price evaluates to 0.
C4_StopLossFires ==
    DayDone => \A pos \in TradablePositions :
        LET bar == RowOf(last.sub_df, pos.code)
        IN  NoTakeProfit(bar, pos) =>
            IF calc_pct_chg(pos.price, bar.open) <= -ctx.stop_loss
            THEN ExitedAs(pos, STOP_LOSS, bar.open)
            ELSE calc_pct_chg(pos.price, bar.low) <= -ctx.stop_loss =>
                    ExitedAs(pos, STOP_LOSS,
                        RoundDiv(pos.price * (10000 - ctx.stop_loss), 10000))

\* The same rule for exit prices other than 0 (it holds).
C4_StopLossNonZero ==
    DayDone => \A pos \in TradablePositions :
        LET bar == RowOf(last.sub_df, pos.code)
            price == RoundDiv(pos.price * (10000 - ctx.stop_loss), 10000)
        IN  NoTakeProfit(bar, pos) =>
            IF calc_pct_chg(pos.price, bar.open) <= -ctx.stop_loss
            THEN ExitedAs(pos, STOP_LOSS, bar.open)
            ELSE calc_pct_chg(pos.price, bar.low) <= -ctx.stop_loss
                    /\ price # 0 => ExitedAs(pos, STOP_LOSS, price)

\* The trade-log entries of day d tagged open, and the exits of the last day.
OpensOn(d) ==
    {k \in DOMAIN trade_logs :
        trade_logs[k].timestamp = d /\ trade_logs[k].tag = OPEN}

ExitsToday ==
    {k \in DOMAIN trade_logs :
        trade_logs[k].timestamp = day /\ trade_logs[k].tag # OPEN}

\* C5: every position opened on a day is for a symbol that had a buy signal
\* that day and was not held when the buy signals were evaluated; no symbol
\* has two opens without an exit in between.
C5_OpensOnlySignalled ==
    /\ DayDone => \A k \in OpensOn(day) :
        /\ RowOf(last.sub_df, trade_logs[k].code).should_buy
        /\ trade_logs[k].code \notin position_codes(last.held_after_sell)
    /\ \A j, k \in DOMAIN trade_logs :
        (/\ j < k
         /\ trade_logs[j].tag = OPEN /\ trade_logs[k].tag = OPEN
         /\ trade_logs[j].code = trade_logs[k].code)
        => \E m \in (j + 1)..(k - 1) :
            trade_logs[m].tag # OPEN /\ trade_logs[m].code = trade_logs[j].code

\* C6: on every day at most max_position_opens positions are opened.
C6_OpensPerDay ==
    \A d \in 1..day : Cardinality(OpensOn(d)) <= ctx.max_position_opens

\* C6 witness: more buy signals than max_position_opens, and
\* max_position_opens positions opened.
C6_Witness ==
    /\ DayDone
    /\ Len(last.buy_indices) > ctx.max_position_opens
    /\ Cardinality(OpensOn(day)) = ctx.max_position_opens

\* What Account.sell credits for the exits logged on the last day.
CreditedToday ==
    LET total == SumSeq([k \in DOMAIN last.sell_logs |->
                    last.sell_logs[k].total_value])
    IN  IF total = 0 THEN 0
        ELSE RoundDiv(total * (10000 - ctx.sell_commission_rate), 10000)

\* C7: the day's exits are applied to the ledger before the buy signals are
\* evaluated: the cash handed to the sizing as budget is the cash balance
\* plus the day's exit proceeds net of commission, the exited positions are
\* no longer held, and a symbol exited that day with a buy signal is among
\* the day's buy signals.
C7_SellsBeforeBuys ==
    DayDone =>
        /\ last.cash_after_sell = last.cash_before + CreditedToday
        /\ last.buy_indices # <<>> =>
            \/ last.budget = 100 * (last.cash_before + CreditedToday)
            \/ /\ last.budget < 100 * (last.cash_before + CreditedToday)
               /\ last.budget = Len(last.pool) * ctx.max_position_size
                    * (last.cash_before + CreditedToday
                        + get_total_worth(last.held_after_sell))
        /\ \A k \in ExitsToday :
            /\ trade_logs[k].code \notin position_codes(last.held_after_sell)
            /\ RowOf(last.sub_df, trade_logs[k].code).should_buy =>
                    trade_logs[k].code \in Range(last.buy_indices)

\* C7 witness: a position is exited and its symbol is opened again on the
\* same day, from a budget that includes the proceeds.
C7_Witness ==
    /\ DayDone
    /\ CreditedToday > 0
    /\ last.budget = 100 * (last.cash_before + CreditedToday)
    /\ \E k \in ExitsToday : \E j \in OpensOn(day) :
            trade_logs[j].code = trade_logs[k].code

\* C8: a day with at least one exit or open has exactly one capital-log
\* entry, with the cash balance and the positions value after its trades.
C8_ActiveDaysLogged ==
    DayDone /\ (\E k \in DOMAIN trade_logs : trade_logs[k].timestamp = day) =>
        LET caps == {k \in DOMAIN capital_logs :
                        capital_logs[k].timestamp = day}
        IN  /\ Cardinality(caps) = 1
            /\ \A k \in caps :
                /\ capital_logs[k].free_cash_amount = cash_amount
                /\ capital_logs[k].positions_value = get_total_worth(holdings)

\* C9: a day with no exit and no open has no capital-log entry.
C9_IdleDaysNotLogged ==
    DayDone /\ ~(\E k \in DOMAIN trade_logs : trade_logs[k].timestamp = day) =>
        ~(\E k \in DOMAIN capital_logs : capital_logs[k].timestamp = day)

\* The frames with the rows of sub_df in another order.
Reorderings(sub_df) ==
    {[k \in DOMAIN sub_df |-> sub_df[p[k]]] : p \in Permutations(DOMAIN sub_df)}

\* C10: with the rows of the day's frame in any other order the day has the
\* same exits (reason and price), opens the same positions with the same
\* share counts, and leaves the same cash balance.
C10_OrderIndependent ==
    DayDone => \A sub_df \in Reorderings(last.sub_df) :
        LET r == DayLoop(last.cash_before, last.held_before, sub_df, day,
                         last.smp)
        IN  /\ Range(r.sell_logs) = Range(last.sell_logs)
            /\ Range(r.buy_positions) = Range(last.buy_positions)
            /\ r.cash_amount = cash_amount

-----------------------------------------------------------------------------
(* generate_positions on its own: a pool and a budget are drawn, and the    *)
(* function is applied to them once.                                        *)

MaxPool == 3

SizingCloses == {520, 1000, 1100}

\* Budgets in cents: none, negative, below one lot, exact lots, and amounts
\* that leave a remainder.
SizingBudgets == {-100, 0, 1, 519, 520, 5200, 10000, 15000, 20400, 30000, 31234}

\* The pools: up to MaxPool rows of distinct symbols, in any order (a sample
\* is in the order drawn).
SizingPools ==
    {pool \in UNION {[1..n -> {Row(code, Bar(c, c, c, c), TRUE, FALSE) :
                                code \in Codes, c \in SizingCloses}] :
                     n \in 1..MaxPool} :
        \A i, j \in DOMAIN pool : i # j => pool[i].code # pool[j].code}

SizingContexts == Contexts \cup {case.ctx : case \in ExitCases}

InitSizing ==
    /\ ctx \in SizingContexts
    /\ cash_amount = ctx.cash_amount
    /\ holdings = <<>>
    /\ trade_logs = <<>>
    /\ capital_logs = <<>>
    /\ day = 0
    /\ dataset = <<>>
    /\ status = "sizing"
    /\ \E pool_df \in SizingPools, budget \in SizingBudgets :
            last = [pool_df |-> pool_df, budget |-> 100 * budget]

\* positions = strategy.generate_positions(pool_df, budget)
Size ==
    /\ status = "sizing"
    /\ status' = "sized"
    /\ last' = [pool_df |-> last.pool_df, budget |-> last.budget,
                buy_positions |->
                    generate_positions(last.pool_df, last.budget, 1)]
    /\ UNCHANGED <<ctx, cash_amount, holdings, trade_logs, capital_logs, day, dataset>>

NextSizing == Size

SpecSizing == InitSizing /\ [][NextSizing]_vars

\* The per-lot price (hundredths of a cent) of the cheapest candidate.
CheapestLot(pool_df) ==
    CHOOSE m \in {100 * trade_price(pool_df[i]) : i \in DOMAIN pool_df} :
        \A i \in DOMAIN pool_df : m <= 100 * trade_price(pool_df[i])

\* C11: for every pool and budget > 0, generate_positions returns positions
\* whose total cost (close * shares) does not exceed the budget; every
\* returned position is of a distinct pool row, at its close, with a positive
\* share count that is a multiple of trading_unit (zero-share candidates are
\* not returned); and the budget left is smaller than the per-lot price of
\* the cheapest candidate.
C11_SizingConservation ==
    status = "sized" /\ last.budget > 0 =>
        LET positions == last.buy_positions
            spent == 100 * Cost(positions)
        IN  /\ spent <= last.budget
            /\ last.budget - spent < CheapestLot(last.pool_df)
            /\ \A i \in DOMAIN positions :
                /\ positions[i].shares > 0
                /\ positions[i].shares % ctx.trading_unit = 0
                /\ \E k \in DOMAIN last.pool_df :
                    /\ last.pool_df[k].code = positions[i].code
                    /\ last.pool_df[k].close = positions[i].price
            /\ \A i, j \in DOMAIN positions :
                i # j => positions[i].code # positions[j].code

\* C11 witness: a sizing in which a candidate gets nothing, another gets
\* its lots from the redistribution only, and a third from the even split.
C11_Witness ==
    /\ status = "sized"
    /\ last.budget > 0
    /\ Len(last.pool_df) = 3
    /\ Len(last.buy_positions) = 2
    /\ \E i \in DOMAIN last.buy_positions :
        last.budget < 3 * 100 * last.buy_positions[i].price * ctx.trading_unit
    /\ \E i \in DOMAIN last.buy_positions :
        last.budget >= 3 * 100 * last.buy_positions[i].price * ctx.trading_unit

-----------------------------------------------------------------------------
(* Trade book and holdings *)

ExitTags == {CLOSE, STOP_LOSS, TAKE_PROFIT}

OpenEntries(id) ==
    {k \in DOMAIN trade_logs :
        trade_logs[k].tag = OPEN /\ trade_logs[k].pos_id = id}

ExitEntries(id) ==
    {k \in DOMAIN trade_logs :
        trade_logs[k].tag \in ExitTags /\ trade_logs[k].pos_id = id}

LoggedIds == {trade_logs[k].pos_id : k \in DOMAIN trade_logs}

\* C12: in a run started with empty holdings, every executed open and exit
\* appends exactly one trade-log entry with one of the four tags; every exit
\* entry has exactly one earlier open entry of its pos_id and is that
\* pos_id's only exit entry; and at the end of every day the positions held
\* are exactly those with an open entry and no exit entry, so that opens
\* minus exits is the number of held positions.
C12_BookMatchesHoldings ==
    status = "running" =>
        /\ \A k \in DOMAIN trade_logs :
            trade_logs[k].tag \in {OPEN} \cup ExitTags
        /\ DayDone =>
            Cardinality({k \in DOMAIN trade_logs : trade_logs[k].timestamp = day})
                = Len(last.sell_positions) + Len(last.buy_positions)
        /\ \A k \in DOMAIN trade_logs :
            trade_logs[k].tag \in ExitTags =>
                /\ Cardinality(OpenEntries(trade_logs[k].pos_id)) = 1
                /\ \A o \in OpenEntries(trade_logs[k].pos_id) : o < k
                /\ ExitEntries(trade_logs[k].pos_id) = {k}
        /\ {holdings[i].id : i \in DOMAIN holdings}
            = {id \in LoggedIds : OpenEntries(id) # {} /\ ExitEntries(id) = {}}
        /\ Cardinality({k \in DOMAIN trade_logs : trade_logs[k].tag = OPEN})
            - Cardinality({k \in DOMAIN trade_logs :
                            trade_logs[k].tag \in ExitTags})
            = Len(holdings)

\* No symbol is opened again while a position of it is open.
NoReopen ==
    \A k1, k2 \in DOMAIN trade_logs :
        /\ k1 < k2
        /\ trade_logs[k1].tag = OPEN
        /\ trade_logs[k2].tag = OPEN
        /\ trade_logs[k1].code = trade_logs[k2].code
        => \E x \in ExitEntries(trade_logs[k1].pos_id) : x < k2

\* C12 holds in every run in which the downsampling never draws a held symbol.
C12_UnlessReopened == NoReopen => C12_BookMatchesHoldings

-----------------------------------------------------------------------------
(* Price adjustment.  A symbol's bars are a sequence of rows                *)
(* [timestamp, open, high, low, close] ascending by timestamp; its factor   *)
(* series is a sequence of [timestamp, hfq_factor] ascending by timestamp,  *)
(* hfq_factor in tenths (10 is the factor 1.0).      Dates are numbers.    *)

\* The outcome of a call: the value it returns, or the exception it raises.
Returned(value) == [raised |-> "", value |-> value]
Raised(exception) == [raised |-> exception, value |-> <<>>]

IndexError == Raised("IndexError")

\* The while loop of assign_factor_value_to_day for one bar date ts, entered
\* with index i (counted from 1): the index it leaves with, or 0 when
\* fac_ts[i + 1] is read past the end of the list.
RECURSIVE Advance(_, _, _)
Advance(fac_ts, i, ts) ==
    IF i + 1 > Len(fac_ts) THEN 0
    ELSE IF fac_ts[i + 1] > ts THEN i
    ELSE Advance(fac_ts, i + 1, ts)

\* The for loop of assign_factor_value_to_day from the k-th bar date on,
\* entered with index i and the factors appended so far.
RECURSIVE FactorScan(_, _, _, _, _, _)
FactorScan(fac_ts, fac_vals, timestamps, k, i, factors) ==
    IF k > Len(timestamps) THEN Returned(factors)
    ELSE With(Advance(fac_ts, i, timestamps[k]), LAMBDA j :
            IF j = 0 THEN IndexError
            ELSE FactorScan(fac_ts, fac_vals, timestamps, k + 1, j,
                            Append(factors, fac_vals[j])))

\* assign_factor_value_to_day: the list of factors, or IndexError.
assign_factor_value_to_day(fac_ts, fac_vals, timestamps) ==
    FactorScan(fac_ts, fac_vals, timestamps, 1, 1, <<>>)

\* price * factor, rounded to 2 decimals.
AdjustedPrice(price, factor) == RoundDiv(price * factor, 10)

\* The frame _adjust_prices returns for the assigned factors: prices times
\* factor, chg and pct_chg from the unrounded adjusted closes, all rounded
\* to 2 decimals (pct_chg in hundredths of a percent).
AdjustedBars(bars_df, factor_vals) ==
    LET adj_close(k) == bars_df[k].close * factor_vals[k]
        adj_chg(k) == IF k = 1 THEN 0 ELSE adj_close(k) - adj_close(k - 1)
    IN  [k \in DOMAIN bars_df |->
            [timestamp |-> bars_df[k].timestamp,
             open |-> AdjustedPrice(bars_df[k].open, factor_vals[k]),
             high |-> AdjustedPrice(bars_df[k].high, factor_vals[k]),
             low |-> AdjustedPrice(bars_df[k].low, factor_vals[k]),
             close |-> AdjustedPrice(bars_df[k].close, factor_vals[k]),
             chg |-> RoundDiv(adj_chg(k), 10),
             pct_chg |-> IF k = 1 THEN 0
                         ELSE RoundDiv(10000 * adj_chg(k), adj_close(k - 1))]]

FactorsOf(bars_df, adj_df) ==
    assign_factor_value_to_day(
        [k \in DOMAIN adj_df |-> adj_df[k].timestamp],
        [k \in DOMAIN adj_df |-> adj_df[k].hfq_factor],
        [k \in DOMAIN bars_df |-> bars_df[k].timestamp])

\* Backtester._adjust_prices: the adjusted bars, or IndexError.
_adjust_prices(bars_df, adj_df) ==
    With(FactorsOf(bars_df, adj_df), LAMBDA factor_vals :
        IF factor_vals.raised # "" THEN factor_vals
        ELSE Returned(AdjustedBars(bars_df, factor_vals.value)))

\* The inputs: bars on some of the dates 1..MaxDate, and a factor series with
\* entries on some of the dates 1..MaxDate + 1.
MaxDate == 3

AdjustBars == {FLAT, RALLY, CHEAP}

AdjustFactors == {10, 25}

\* The ascending sequences over the dates 1..n with a value of vals each.
DatedSeries(n, vals) ==
    LET Indexed(dates) ==
            [k \in 1..Cardinality(dates) |->
                CHOOSE d \in dates : Cardinality({e \in dates : e < d}) = k - 1]
    IN  UNION {{[k \in DOMAIN Indexed(dates) |->
                    [timestamp |-> Indexed(dates)[k], val |-> f[Indexed(dates)[k]]]] :
                f \in [dates -> vals]} :
               dates \in (SUBSET (1..n)) \ {{}}}

BarSeries ==
    {[k \in DOMAIN s |->
        [timestamp |-> s[k].timestamp, open |-> s[k].val.open,
         high |-> s[k].val.high, low |-> s[k].val.low,
         close |-> s[k].val.close]] : s \in DatedSeries(MaxDate, AdjustBars)}

FactorSeries ==
    {[k \in DOMAIN s |->
        [timestamp |-> s[k].timestamp, hfq_factor |-> s[k].val]] :
     s \in DatedSeries(MaxDate + 1, AdjustFactors)}

InitAdjust ==
    /\ ctx \in Contexts
    /\ cash_amount = ctx.cash_amount
    /\ holdings = <<>>
    /\ trade_logs = <<>>
    /\ capital_logs = <<>>
    /\ day = 0
    /\ dataset = <<>>
    /\ status = "bars"
    /\ \E bars_df \in BarSeries, adj_df \in FactorSeries :
            last = [bars_df |-> bars_df, adj_df |-> adj_df]

\* bars_df = self._adjust_prices(bars_df, adjust_factors_df)
AdjustPrices ==
    /\ status = "bars"
    /\ status' = "adjusted"
    /\ last' = [bars_df |-> last.bars_df, adj_df |-> last.adj_df,
                factor_vals |-> FactorsOf(last.bars_df, last.adj_df),
                adjusted |-> _adjust_prices(last.bars_df, last.adj_df)]
    /\ UNCHANGED <<ctx, cash_amount, holdings, trade_logs, capital_logs, day, dataset>>

NextAdjust == AdjustPrices

SpecAdjust == InitAdjust /\ [][NextAdjust]_vars

\* The entries of the factor series in force on date ts: those with the
\* greatest effective date <= ts.
InForce(adj_df, ts) ==
    {k \in DOMAIN adj_df :
        /\ adj_df[k].timestamp <= ts
        /\ \A j \in DOMAIN adj_df :
            adj_df[j].timestamp <= ts => adj_df[j].timestamp <= adj_df[k].timestamp}

\* C13: for bars and factors sorted ascending by date,
\* assign_factor_value_to_day finishes without an error and returns one
\* factor per bar, the value of the entry with the greatest effective date
\* <= the bar's date, for every bar, also those dated on or after the last
\* factor entry.
C13_StepFunction ==
    status = "adjusted" =>
        /\ last.factor_vals.raised = ""
        /\ Len(last.factor_vals.value) = Len(last.bars_df)
        /\ \A k \in DOMAIN last.bars_df :
            \E e \in InForce(last.adj_df, last.bars_df[k].timestamp) :
                last.factor_vals.value[k] = last.adj_df[e].hfq_factor

\* The factor series starts on or before the first bar and has an entry
\* dated after the last bar.
Covered ==
    /\ last.adj_df[1].timestamp <= last.bars_df[1].timestamp
    /\ last.adj_df[Len(last.adj_df)].timestamp
        > last.bars_df[Len(last.bars_df)].timestamp

\* For such a series the scan does return the step function.
C13_WhenCovered == Covered => C13_StepFunction

\* Every entry of the factor series is 1.0.
AllOnes == \A k \in DOMAIN last.adj_df : last.adj_df[k].hfq_factor = 10

SamePrices(a, b) ==
    /\ a.open = b.open
    /\ a.high = b.high
    /\ a.low = b.low
    /\ a.close = b.close

\* C16: the price adjustment with a factor series whose values are all 1.0
\* returns the bars with every open, high, low and close unchanged.
C16_OnesChangeNothing ==
    status = "adjusted" /\ AllOnes =>
        /\ last.adjusted.raised = ""
        /\ Len(last.adjusted.value) = Len(last.bars_df)
        /\ \A k \in DOMAIN last.bars_df :
            SamePrices(last.adjusted.value[k], last.bars_df[k])

\* With an entry dated after the last bar the prices are unchanged.
C16_WhenCovered == Covered => C16_OnesChangeNothing

-----------------------------------------------------------------------------
(* The indicator pipeline.  A dataset df is, per symbol, the symbol's bars; *)
(* its columns are the base columns and the indicator columns it came with. *)
(* The result of a symbol is the frame _adjust_then_compute returns for it: *)
(* its rows and columns, with the indicator computations invoked (and the   *)
(* columns of the frame at each invocation) and the stages that were run.   *)

BaseColumns == {"timestamp", "open", "high", "low", "close", "vol"}

\* The indicators of the strategy with the predecessors each declares
\* (chg and pct_chg are those of Strategy).
Predecessors ==
    [chg |-> <<"close">>, pct_chg |-> <<"chg", "close">>,
     ma5 |-> <<"close">>, signal |-> <<"ma5", "pct_chg">>]

IndicatorNames == DOMAIN Predecessors

\* IndicatorsResolver.get_compute_order: the indicators in a topological
\* order of their declarations.
ComputeOrders ==
    {order \in [1..Cardinality(IndicatorNames) -> IndicatorNames] :
        /\ \A i, j \in DOMAIN order : i # j => order[i] # order[j]
        /\ \A i \in DOMAIN order :
            \A p \in Range(Predecessors[order[i]]) :
                p \in IndicatorNames => \E j \in 1..(i - 1) : order[j] = p}

\* A frame with no rows: pd.DataFrame() has no columns either.
SymbolFrame(rows, columns, calls, adjusted, post_processed) ==
    [rows |-> rows, columns |-> columns, calls |-> calls,
     adjusted |-> adjusted, post_processed |-> post_processed]

EmptyFrame == SymbolFrame(<<>>, {}, <<>>, FALSE, FALSE)

\* Mutant: every indicator of the order is computed, present or not, and
\* before the columns it reads are looked up.
RECURSIVE ComputeIndicators_Always(_, _, _, _)
ComputeIndicators_Always(indicators, k, columns, calls) ==
    IF k > Len(indicators) THEN Returned([columns |-> columns, calls |-> calls])
    ELSE ComputeIndicators_Always(indicators, k + 1,
            columns \cup {indicators[k]},
            Append(calls, [ind |-> indicators[k], columns |-> columns]))

\* The indicator loop of _adjust_then_compute from the k-th entry of
\* indicators on: the columns of the frame and the computations invoked, or
\* KeyError when a predecessor is not a column of the frame.
RECURSIVE ComputeIndicators(_, _, _, _)
ComputeIndicators(indicators, k, columns, calls) ==
    IF k > Len(indicators) THEN Returned([columns |-> columns, calls |-> calls])
    ELSE IF indicators[k] \in columns
    THEN ComputeIndicators(indicators, k + 1, columns, calls)
    ELSE IF ~(Range(Predecessors[indicators[k]]) \subseteq columns)
    THEN Raised("KeyError")
    ELSE ComputeIndicators(indicators, k + 1, columns \cup {indicators[k]},
            Append(calls, [ind |-> indicators[k], columns |-> columns]))

\* strategy.pre_process: StrategyBase returns the frame; a strategy may
\* return no rows for a symbol, or add columns.
pre_process(strategy, code, frame) ==
    IF code \in strategy.skips
    THEN [frame EXCEPT !.rows = <<>>]
    ELSE [frame EXCEPT !.columns = @ \cup strategy.adds]

\* strategy.post_process
post_process(strategy, frame) == [frame EXCEPT !.post_processed = TRUE]

\* bars_df["pct_chg"].abs().max() > 21
Implausible(rows) ==
    \E k \in DOMAIN rows : rows[k].pct_chg > 2100 \/ rows[k].pct_chg < -2100

\* The price adjustment of _adjust_then_compute: the frame to go on with,
\* an empty frame, or the exception that leaves the function.
AdjustStage(code, frame, adjust_factors_df) ==
    IF ~adjust_factors_df.configured THEN Returned(frame)
    ELSE IF code \notin DOMAIN adjust_factors_df.table
    THEN Returned(EmptyFrame)                       \* except KeyError
    ELSE IF Len(adjust_factors_df.table[code]) = 1
    \* .loc[code] of a symbol with one entry is a Series, and
    \* Series.sort_values("timestamp") raises
    THEN Raised("TypeError")
    ELSE With(_adjust_prices(frame.rows, adjust_factors_df.table[code]),
            LAMBDA adjusted :
            IF adjusted.raised # "" THEN adjusted
            ELSE IF Implausible(adjusted.value) THEN Returned(EmptyFrame)
            ELSE Returned([frame EXCEPT
                    !.rows = adjusted.value,
                    !.columns = @ \cup {"chg", "pct_chg"},
                    !.adjusted = TRUE]))

\* Backtester._adjust_then_compute for the bars of one symbol.
_adjust_then_compute(code, bars_df, columns, indicators, strategy, adjust_factors_df) ==
    With(pre_process(strategy, code,
            SymbolFrame(bars_df, columns, <<>>, FALSE, FALSE)),
        LAMBDA pre :
    IF pre.rows = <<>> THEN Returned(pre)
    ELSE
    With(AdjustStage(code, pre, adjust_factors_df), LAMBDA adj :
    IF adj.raised # "" \/ adj.value.rows = <<>> THEN adj
    ELSE
    With(ComputeIndicators(indicators, 1, adj.value.columns, <<>>),
        LAMBDA computed :
    IF computed.raised # "" THEN computed
    ELSE Returned(post_process(strategy,
            [adj.value EXCEPT !.columns = computed.value.columns,
                              !.calls = computed.value.calls])))))

\* The symbols of a dataset in groupby order.
GroupCodes(df) ==
    LET InDf(code) == code \in DOMAIN df.bars
    IN  SelectSeq(CodeOrder, InDf)

\* pd.concat over the symbols from the k-th on: the frames of all symbols,
\* or the first exception.
RECURSIVE ConcatFrames(_, _, _, _, _, _)
ConcatFrames(df, codes, k, ind_resolv, strategy, adjust_factors_df) ==
    IF k > Len(codes) THEN Returned(<<>>)
    ELSE With(_adjust_then_compute(codes[k], df.bars[codes[k]], df.columns,
                    ind_resolv, strategy, adjust_factors_df), LAMBDA head :
         IF head.raised # "" THEN head
         ELSE With(ConcatFrames(df, codes, k + 1, ind_resolv, strategy,
                        adjust_factors_df), LAMBDA rest :
              IF rest.raised # "" THEN rest
              ELSE Returned(<<head.value>> \o rest.value)))

\* Backtester.get_indicators_df: the frame of every symbol of df (indexed
\* as GroupCodes(df)), or the exception raised.
get_indicators_df(df, strategy, adjust_factors_df) ==
    LET Missing(ind) == ind \notin df.columns
        ind_resolv == SelectSeq(strategy.compute_order, Missing)
    IN  IF ind_resolv = <<>>
        THEN Returned([k \in DOMAIN GroupCodes(df) |->
                SymbolFrame(df.bars[GroupCodes(df)[k]], df.columns, <<>>,
                            FALSE, FALSE)])
        ELSE ConcatFrames(df, GroupCodes(df), 1, ind_resolv, strategy,
                          adjust_factors_df)

\* Inputs.  Bars of a symbol: two flat days, a day-2 jump of 110%, or a
\* listing on day 2.
DayBar(timestamp, bar) ==
    [timestamp |-> timestamp, open |-> bar.open, high |-> bar.high,
     low |-> bar.low, close |-> bar.close]

PipelineBars ==
    {<<DayBar(1, FLAT), DayBar(2, FLAT)>>,
     <<DayBar(1, CHEAP), DayBar(2, RALLY)>>,
     <<DayBar(2, FLAT), DayBar(3, RALLY)>>}

Factor(timestamp, hfq_factor) ==
    [timestamp |-> timestamp, hfq_factor |-> hfq_factor]

\* Factor series of a symbol: all 1.0 up to a later date; one entry; ending
\* on day 2; a 2.5 from day 2 or day 3 on; starting on day 2.
PipelineFactors ==
    {<<Factor(1, 10), Factor(4, 10)>>,
     <<Factor(1, 10)>>,
     <<Factor(1, 10), Factor(2, 10)>>,
     <<Factor(1, 10), Factor(2, 25), Factor(4, 25)>>,
     <<Factor(1, 10), Factor(3, 25), Factor(4, 25)>>,
     <<Factor(2, 10), Factor(4, 10)>>}

PipelineCodes == {"A", "B"}

\* ctx.hfq_adjust_factors: None, or a table with the series of some symbols.
FactorTables ==
    {[configured |-> FALSE, table |-> <<>>]} \cup
    {[configured |-> TRUE, table |-> t] :
        t \in UNION {[codes -> PipelineFactors] : codes \in SUBSET PipelineCodes}}

Datasets ==
    {[bars |-> b, columns |-> BaseColumns \cup inds] :
        b \in [PipelineCodes -> PipelineBars],
        inds \in {{}, {"ma5"}, {"signal"}, IndicatorNames}}

Strategies ==
    {[compute_order |-> order, skips |-> skips, adds |-> adds] :
        order \in ComputeOrders, skips \in {{}, {"B"}},
        adds \in {{}, {"ma5"}}}

InitPipeline ==
    /\ ctx \in Contexts
    /\ cash_amount = ctx.cash_amount
    /\ holdings = <<>>
    /\ trade_logs = <<>>
    /\ capital_logs = <<>>
    /\ day = 0
    /\ dataset = <<>>
    /\ status = "raw"
    /\ \E df \in Datasets, strategy \in Strategies,
          adjust_factors_df \in FactorTables :
            last = [df |-> df, strategy |-> strategy,
                    adjust_factors_df |-> adjust_factors_df]

\* strategy.get_indicators_df(ticks_data, ctx)
GetIndicators ==
    /\ status = "raw"
    /\ \E out \in {get_indicators_df(last.df, last.strategy,
                                     last.adjust_factors_df)} :
        /\ status' = IF out.raised = "" THEN "enriched" ELSE out.raised
        /\ last' = [df |-> last.df, strategy |-> last.strategy,
                    adjust_factors_df |-> last.adjust_factors_df,
                    codes |-> GroupCodes(last.df),
                    frames |-> out.value]
    /\ UNCHANGED <<ctx, cash_amount, holdings, trade_logs, capital_logs, day, dataset>>

NextPipeline == GetIndicators

SpecPipeline == InitPipeline /\ [][NextPipeline]_vars

\* The symbols of the dataset that have no entry in the factor table.
NoFactorEntry(code) ==
    /\ last.adjust_factors_df.configured
    /\ code \notin DOMAIN last.adjust_factors_df.table

\* C14: when a factor table is configured, a symbol that has bars but no
\* entry in the table has zero rows in the dataset get_indicators_df
\* returns (and so nothing of it can be traded), whatever the input
\* dataset, also one that already has all the strategy's indicator columns.
C14_MissingFactorDropped ==
    status = "enriched" =>
        \A k \in DOMAIN last.codes :
            NoFactorEntry(last.codes[k]) => last.frames[k].rows = <<>>

\* Some indicator of the strategy is not a column of the incoming dataset.
SomethingToCompute == ~(IndicatorNames \subseteq last.df.columns)

\* The symbol is dropped whenever there is an indicator to compute.
C14_WhenComputing == SomethingToCompute => C14_MissingFactorDropped

\* The factors the step function of the design assigns to the bars.
StepFactors(bars_df, adj_df) ==
    [k \in DOMAIN bars_df |->
        adj_df[CHOOSE e \in InForce(adj_df, bars_df[k].timestamp) : TRUE].hfq_factor]

\* A symbol whose adjustment factor is missing or implausible: no entry in
\* the table, a bar with no factor in force, or an adjusted |pct_chg| > 21.
Faulty(code) ==
    /\ last.adjust_factors_df.configured
    /\ \/ NoFactorEntry(code)
       \/ LET bars_df == last.df.bars[code]
              adj_df == last.adjust_factors_df.table[code]
          IN  \/ \E k \in DOMAIN bars_df :
                    InForce(adj_df, bars_df[k].timestamp) = {}
              \/ Implausible(AdjustedBars(bars_df, StepFactors(bars_df, adj_df)))

FaultyCodes == {code \in DOMAIN last.df.bars : Faulty(code)}

\* The dataset without the faulty symbols, and what the pipeline makes of it.
SoundDataset ==
    [bars |-> [code \in (DOMAIN last.df.bars) \ FaultyCodes |-> last.df.bars[code]],
     columns |-> last.df.columns]

SoundRun == get_indicators_df(SoundDataset, last.strategy, last.adjust_factors_df)

FrameOfCode(codes, frames, code) ==
    frames[CHOOSE k \in DOMAIN codes : codes[k] = code]

\* C15: a symbol with a missing or implausible factor never aborts
\* get_indicators_df: whenever the pipeline runs through on the other
\* symbols alone, it runs through with the faulty symbol in the input, all
\* rows of the faulty symbol are dropped, and the other symbols' rows are
\* those of the run without it.
C15_FaultsIsolated ==
    /\ status # "raw"
    /\ FaultyCodes # {}
    /\ FaultyCodes # DOMAIN last.df.bars
    /\ SoundRun.raised = ""
    => /\ status = "enriched"
       /\ \A code \in FaultyCodes :
            FrameOfCode(last.codes, last.frames, code).rows = <<>>
       /\ \A code \in (DOMAIN last.df.bars) \ FaultyCodes :
            FrameOfCode(last.codes, last.frames, code)
                = FrameOfCode(GroupCodes(SoundDataset), SoundRun.value, code)

\* Every factor series of the table starts on or before its symbol's first
\* bar and has an entry dated after its last bar.
SeriesSpanBars ==
    \A code \in DOMAIN last.adjust_factors_df.table :
        code \in DOMAIN last.df.bars =>
            LET adj_df == last.adjust_factors_df.table[code]
                bars_df == last.df.bars[code]
            IN  /\ adj_df[1].timestamp <= bars_df[1].timestamp
                /\ adj_df[Len(adj_df)].timestamp > bars_df[Len(bars_df)].timestamp

\* The faults are isolated when there is an indicator to compute and every
\* series spans its symbol's bars.
C15_WhenComputing == SomethingToCompute /\ SeriesSpanBars => C15_FaultsIsolated

\* The indicators whose computation was invoked before the c-th call.
ComputedBefore(frame, c) == {frame.calls[b].ind : b \in 1..(c - 1)}

-----------------------------------------------------------------------------
(* Suspended symbols, liquidation, determinism *)

\* The positions held when the day began whose symbol is not in its frame.
Suspended ==
    {i \in DOMAIN last.held_before :
        last.held_before[i].code \notin FrameCodes(last.sub_df)}

\* C18: on a day whose frame does not contain a held position's symbol the
\* run continues without error, and that position is still held with its
\* latest price and shares unchanged and has no trade-log entry of that day.
C18_SuspendedUntouched ==
    /\ status # "KeyError"
    /\ DayDone =>
        \A i \in Suspended :
            /\ \E j \in DOMAIN holdings : holdings[j] = last.held_before[i]
            /\ \A k \in DOMAIN trade_logs :
                trade_logs[k].timestamp = day
                    => trade_logs[k].pos_id # last.held_before[i].id

\* Account.clear: sell every held position.
AccountClear(cash, h) == AccountSell(cash, h, h)

\* account.clear(), called by the user of a finished run.
Clear ==
    /\ status = "running"
    /\ status' = "cleared"
    /\ \E res \in {AccountClear(cash_amount, holdings)} :
        /\ cash_amount' = res[1]
        /\ holdings' = res[2]
    /\ last' = [cash_before |-> cash_amount, held_before |-> holdings,
                timestamp |-> day]
    /\ UNCHANGED <<ctx, trade_logs, capital_logs, day, dataset>>

NextClear == TradeDay \/ Clear

\* A run of Backtester.trade, after which the account may be cleared.
SpecClear == Init /\ [][NextClear]_vars

\* The positions with an open entry and no exit entry in the trade book.
OpenInBook == {id \in LoggedIds : OpenEntries(id) # {} /\ ExitEntries(id) = {}}

\* C19: Account.clear() sells every held position at its latest price:
\* afterwards Holdings is empty and cash has grown by the sell-commissioned
\* sum of latest_price * shares (nothing changes when nothing is held);
\* Backtester.trade never liquidates: while it runs and when it returns,
\* every position opened and not exited is held.
C19_LiquidationExplicit ==
    /\ status = "cleared" =>
        /\ holdings = <<>>
        /\ cash_amount = last.cash_before
            + (IF last.held_before = <<>> THEN 0
               ELSE take_sell_commissions(Proceeds(last.held_before)))
    /\ status = "running" =>
        \A id \in OpenInBook : \E j \in DOMAIN holdings : holdings[j].id = id

\* C19 holds in every run in which the downsampling never draws a held symbol.
C19_UnlessReopened == NoReopen => C19_LiquidationExplicit

\* A trade-log entry without its generated position id.
Anonymous(entry) ==
    [timestamp |-> entry.timestamp, tag |-> entry.tag, code |-> entry.code,
     shares |-> entry.shares, price |-> entry.price]

\* What a day appends to the trade book.
Appended(r) ==
    <<[k \in DOMAIN r.sell_logs |-> Anonymous(r.sell_logs[k])],
      [k \in DOMAIN r.buy_logs |-> Anonymous(r.buy_logs[k])],
      r.capital_logs>>

\* C20: two runs of Backtester.trade on the same dataset, strategy,
\* configuration and initial account produce the same trade log (position
\* ids aside) and the same capital log: from the same account, on the same
\* day's frame, every run appends what this run has appended, also when the
\* buy signals outnumber max_position_opens.
C20_Deterministic ==
    DayDone =>
        \A smp \in Draws(last.cash_before, last.held_before, last.sub_df) :
            Appended(DayLoop(last.cash_before, last.held_before, last.sub_df,
                             day, smp))
                = Appended(last)

\* The buy signals of the day do not outnumber max_position_opens.
NoDownsampling == Len(last.buy_indices) <= ctx.max_position_opens

\* Days without downsampling are deterministic.
C20_WithoutDownsampling == NoDownsampling => C20_Deterministic

-----------------------------------------------------------------------------
(* Mark-to-market, log order, size cap, cash *)

\* The position carries the close of its symbol's row as its latest price.
MarkedAt(pos, sub_df) ==
    pos.code \in FrameCodes(sub_df) =>
        pos.latest_price = RowOf(sub_df, pos.code).close

\* What the claim says of a day on the frame sub_df, as a relation between
\* the state before the day and the state after it.
MarkedToMarket(sub_df) ==
    \* start of the day: every held position of the frame is marked, before
    \* any exit is evaluated
    /\ \A i \in DOMAIN holdings :
        IF status' = "running"
        THEN MarkedAt(last'.ticked[i], sub_df)
        ELSE MarkedAt(holdings'[i], sub_df)
    \* end of the day: what is still held is at the close, and an exit price
    \* is only on positions that were sold
    /\ status' = "running" =>
        /\ \A j \in DOMAIN holdings' : MarkedAt(holdings'[j], sub_df)
        /\ \A i \in DOMAIN last'.closed :
            ~MarkedAt(last'.closed[i], sub_df) =>
                \E k \in DOMAIN last'.sell_positions :
                    last'.sell_positions[k] = last'.closed[i]
        \* with nothing held the step changes nothing
        /\ holdings = <<>> => last'.ticked = <<>>

\* C21: on every day with holdings, every held position whose symbol is in
\* the day's frame has latest_price set to the day's close before any exit
\* is evaluated; at the end of the day every position still held and in the
\* frame is at that close (an exit price is written only to positions sold
\* that day); with empty holdings the step changes nothing.
C21_MarkToMarket ==
    [][\A sub_df \in Frames : Day(sub_df) => MarkedToMarket(sub_df)]_vars

\* The same for the days the loop completes, read from the day's locals.
C21_WhenAllTraded ==
    DayDone =>
        /\ \A i \in DOMAIN last.ticked : MarkedAt(last.ticked[i], last.sub_df)
        /\ \A j \in DOMAIN holdings : MarkedAt(holdings[j], last.sub_df)
        /\ \A i \in DOMAIN last.closed :
            ~MarkedAt(last.closed[i], last.sub_df) =>
                \E k \in DOMAIN last.sell_positions :
                    last.sell_positions[k] = last.closed[i]
        /\ last.held_before = <<>> => last.ticked = <<>>

-----------------------------------------------------------------------------
(* Backtester.trade over a dataset given up front: index, groups, days *)

\* The index names Backtester.trade accepts as they are.
TradeIndex == <<"timestamp", "code">>

CodeRank(code) == CHOOSE i \in DOMAIN CodeOrder : CodeOrder[i] = code

\* df.sort_index() on the index [timestamp, code]: the position of row i.
IndexRank(df, i) ==
    1 + Cardinality({j \in DOMAIN df :
            \/ df[j].timestamp < df[i].timestamp
            \/ /\ df[j].timestamp = df[i].timestamp
               /\ CodeRank(df[j].code) < CodeRank(df[i].code)})

sort_index(df) ==
    [k \in DOMAIN df |-> df[CHOOSE i \in DOMAIN df : IndexRank(df, i) = k]]

\* The head of Backtester.trade: a frame whose index is not
\* [timestamp, code] is re-indexed and sorted, any other is left as given.
Reindexed(df) ==
    IF df.index_names # TradeIndex
    THEN [index_names |-> TradeIndex, rows |-> sort_index(df.rows)]
    ELSE df

TimestampsOf(rows) == {rows[i].timestamp : i \in DOMAIN rows}

\* Mutant: the group keys in the order of their first appearance
\* (groupby with sort=False).
GroupKeys_FirstAppearance(rows) ==
    LET First(t) == CHOOSE i \in DOMAIN rows :
            /\ rows[i].timestamp = t
            /\ \A j \in 1..(i - 1) : rows[j].timestamp # t
        keys == TimestampsOf(rows)
    IN  [k \in 1..Cardinality(keys) |->
            CHOOSE t \in keys :
                Cardinality({u \in keys : First(u) <= First(t)}) = k]

\* The group keys of df.groupby(level="timestamp"): groupby sorts the keys
\* (sort=True is its default).
GroupKeys(rows) ==
    LET keys == TimestampsOf(rows)
    IN  [k \in 1..Cardinality(keys) |->
            CHOOSE t \in keys : Cardinality({u \in keys : u <= t}) = k]

\* df.groupby(level="timestamp"): the pairs (timestamp, sub_df) the day
\* loop iterates over; the rows of a group keep their order in df.
GroupByTimestamp(rows) ==
    With(GroupKeys(rows), LAMBDA keys :
        [k \in DOMAIN keys |->
            [timestamp |-> keys[k],
             sub_df |-> LET InGroup(row) == row.timestamp = keys[k]
                        IN  SelectSeq(rows, InGroup)]])

MaxRows == 3

\* The timestamps of the datasets explored (string dates, by their rank).
Timestamps == 1..(MaxDays + 1)

DatasetCodes == {"A", "B"}

\* A row of the dataset: a buy signal, a bar that takes profit on a
\* position opened at 10.00, or a close signal.
DatedRows ==
    {[timestamp |-> t, code |-> r.code, open |-> r.open, high |-> r.high,
      low |-> r.low, close |-> r.close, should_buy |-> r.should_buy,
      should_close |-> r.should_close] :
        t \in Timestamps,
        r \in UNION {{Row(code, FLAT, TRUE, FALSE),
                      Row(code, RALLY, FALSE, FALSE),
                      Row(code, FLAT, FALSE, TRUE)} : code \in DatasetCodes}}

\* The frames handed to trade: MaxRows rows in any order, one row at most
\* per (timestamp, code), indexed by [timestamp, code] or not.
DatasetsGiven ==
    {[index_names |-> names, rows |-> rows] :
        names \in {TradeIndex, <<"code", "timestamp">>},
        rows \in {s \in [1..MaxRows -> DatedRows] :
            \A i, j \in 1..MaxRows :
                (s[i].timestamp = s[j].timestamp /\ s[i].code = s[j].code)
                    => i = j}}

InitDataset ==
    /\ ctx \in Contexts
    /\ cash_amount = ctx.cash_amount
    /\ holdings = <<>>
    /\ trade_logs = <<>>
    /\ capital_logs = <<>>
    /\ day = 0
    /\ dataset \in DatasetsGiven
    /\ status = "called"
    /\ last = NoDay

\* Backtester.trade up to the day loop.
Prepare ==
    /\ status = "called"
    /\ dataset' = Reindexed(dataset)
    /\ status' = "running"
    /\ UNCHANGED <<ctx, cash_amount, holdings, trade_logs, capital_logs,
                   day, last>>

\* The next iteration of the day loop over the groups of the dataset.
TradeGroup ==
    \E groups \in {GroupByTimestamp(dataset.rows)} :
        /\ day < Len(groups)
        /\ DayAt(groups[day + 1].sub_df, groups[day + 1].timestamp)

NextDataset == Prepare \/ TradeGroup

SpecDataset == InitDataset /\ [][NextDataset]_vars

\* The day loop has completed day iterations.
GroupDone == day > 0 /\ status = "running"

IsExit(entry) == entry.tag \in {CLOSE, STOP_LOSS, TAKE_PROFIT}

\* C22: the days are processed in strictly ascending timestamp order
\* whatever the index and the row order of the frame given (the n-th day
\* processed is the n-th smallest timestamp of the dataset); the timestamps
\* of the trade log and of the capital log never decrease in append order,
\* the capital log has one entry at most per timestamp, and within a day
\* no open entry precedes an exit entry.
C22_LogOrder ==
    /\ GroupDone =>
        /\ last.timestamp \in TimestampsOf(dataset.rows)
        /\ Cardinality({t \in TimestampsOf(dataset.rows) :
                t <= last.timestamp}) = day
    /\ \A i, j \in DOMAIN trade_logs :
        i < j =>
            /\ trade_logs[i].timestamp <= trade_logs[j].timestamp
            /\ (/\ trade_logs[i].timestamp = trade_logs[j].timestamp
                /\ IsExit(trade_logs[j])) => IsExit(trade_logs[i])
    /\ \A i, j \in DOMAIN capital_logs :
        i < j => capital_logs[i].timestamp < capital_logs[j].timestamp
    /\ \A i \in DOMAIN trade_logs :
        trade_logs[i].timestamp <= last.timestamp
    /\ \A i \in DOMAIN capital_logs :
        capital_logs[i].timestamp <= last.timestamp

\* A frame indexed by [timestamp, code] whose rows are not in timestamp
\* order, on the second day processed, with an exit and an open logged on
\* that day and a capital-log entry for each of the two days.
C22_Witness ==
    /\ GroupDone
    /\ day = 2
    /\ \E i, j \in DOMAIN dataset.rows :
        i < j /\ dataset.rows[i].timestamp > dataset.rows[j].timestamp
    /\ \E i, j \in DOMAIN trade_logs :
        /\ trade_logs[i].timestamp = last.timestamp
        /\ trade_logs[j].timestamp = last.timestamp
        /\ IsExit(trade_logs[i])
        /\ trade_logs[j].tag = OPEN
    /\ Len(capital_logs) = 2

-----------------------------------------------------------------------------
(* Position size cap *)

\* Buy signals were sized on the day just completed.
SizedToday == DayDone /\ last.buy_indices # <<>>

\* max_position_size * total asset value when the day's buys are sized, in
\* hundredths of a cent.
max_position_value ==
    ctx.max_position_size
        * get_total_asset_value(last.cash_after_sell, last.held_after_sell)

\* C23: every position opened has cost (close * shares) at most
\* max_position_size * total asset value of the account at the time of
\* sizing, after the redistribution of the leftover budget too.
C23_PositionCap ==
    SizedToday =>
        \A i \in DOMAIN last.buy_positions :
            100 * cost(last.buy_positions[i]) <= max_position_value

\* What the budget limit does bound: the day's opens together cost less
\* than pool size * (cap + one currency unit).
C23_PoolWithinBudget ==
    SizedToday =>
        /\ last.budget <= 100 * last.cash_after_sell
        /\ last.buy_positions # <<>> =>
            /\ 100 * Cost(last.buy_positions) <= last.budget
            /\ 100 * Cost(last.buy_positions)
                    < Len(last.pool) * (max_position_value + 10000)

-----------------------------------------------------------------------------
(* Cash *)

\* C24: from a non-negative starting balance the account's cash_amount is
\* never negative, whatever the buy commission rate: the debit of a buy
\* (cost plus buy commission) never exceeds the cash available.
C24_CashNeverNegative == cash_amount >= 0

\* Without a buy commission the debit is the cost, which the sizing keeps
\* within the cash balance.
C24_WithoutBuyCommission ==
    ctx.buy_commission_rate = 0 => cash_amount >= 0

====
